---- MODULE Spec2Model ----
(***************************************************************************)
(* Model of osbuild/meta.py: the validation-result algebra                 *)
(* (ValidationError, ValidationResult), the Schema wrapper, the static     *)
(* ModuleInfo reader and schema synthesizer, and the caching Index.        *)
(*                                                                         *)
(* Strings that are compared or concatenated by the code (error            *)
(* identities) are sequences of character codes; strings that the code     *)
(* only tests for equality (messages, class names) are TLA+ strings.       *)
(***************************************************************************)
EXTENDS Integers, Sequences, FiniteSets, TLC

VARIABLES
    errs,         \* heap of ValidationError objects: ref -> [message, path]
    results,      \* ValidationResult objects: their `errors` set
    iter,         \* the last operation, when it was an iteration: what it yielded
    mlog,         \* the last operation, when it was a merge
    steps,        \* number of ValidationResult operations performed
    fs,           \* files under the root: path key -> content
    module_info,  \* Index._module_info
    schemata,     \* Index._schemata
    infos,        \* heap of ModuleInfo objects
    schemas,      \* heap of Schema objects
    ret,          \* observation of the last Index / Schema call
    hist,         \* first normally returned object per call and key
    calls         \* number of Index / Schema calls performed

errVars == <<errs, results, iter, mlog, steps>>
idxVars == <<fs, module_info, schemata, infos, schemas, ret, hist, calls>>
vars == <<errs, results, iter, mlog, steps,
          fs, module_info, schemata, infos, schemas, ret, hist, calls>>

(***************************************************************************)
(* Bounds                                                                  *)
(***************************************************************************)
MaxErrs == 4
MaxPath == 2
MaxSteps == 4
MaxCalls == 3

(***************************************************************************)
(* Character codes used by ValidationError.id                              *)
(***************************************************************************)
SPACE == 32
QUOTE == 39
MINUS == 45
DOT == 46
ZERO == 48
LBRACK == 91
RBRACK == 93
CH_A == 97
CH_B == 98

Range(s) == {s[i] : i \in 1..Len(s)}

\* a path segment is a string or an integer
StrSeg(s) == [kind |-> "str", s |-> s, n |-> 0]
IntSeg(n) == [kind |-> "int", s |-> <<>>, n |-> n]

Segs == {StrSeg(<<>>), StrSeg(<<CH_A, SPACE, CH_B>>), IntSeg(12)}
Msgs == {"m", "n"}
Results == {"R", "T"}
Prefixes == {<<>>} \cup {<<s>> : s \in Segs}

\* str(n) for an integer n
RECURSIVE Decimal(_)
Decimal(n) ==
    IF n < 0 THEN <<MINUS>> \o Decimal(0 - n)
    ELSE IF n < 10 THEN <<ZERO + n>>
    ELSE Decimal(n \div 10) \o <<ZERO + (n % 10)>>

\* one round of the loop of ValidationError.id
SegToken(p) ==
    IF p.kind = "str"
    THEN <<DOT>> \o (IF SPACE \in Range(p.s) THEN <<QUOTE>> \o p.s \o <<QUOTE>> ELSE p.s)
    ELSE <<LBRACK>> \o Decimal(p.n) \o <<RBRACK>>

RECURSIVE IdLoop(_)
IdLoop(path) ==
    IF path = <<>> THEN <<>> ELSE SegToken(Head(path)) \o IdLoop(Tail(path))

\* ValidationError.id
Id(path) == IF path = <<>> THEN <<DOT>> ELSE IdLoop(path)

\* Python's str < str: lexicographic on code points
RECURSIVE StrLt(_, _)
StrLt(a, b) ==
    IF b = <<>> THEN FALSE
    ELSE IF a = <<>> THEN TRUE
    ELSE IF Head(a) # Head(b) THEN Head(a) < Head(b)
    ELSE StrLt(Tail(a), Tail(b))

\* ValidationError.__init__
NewError(msg) == [message |-> msg, path |-> <<>>]

\* ValidationError.rebase: reversed + extendleft prepends `path` in order
Rebase(e, path) == [e EXCEPT !.path = path \o @]

\* ValidationError.__hash__
Hash(e) == <<Id(e.path), e.message>>

\* ValidationError.__eq__
ErrEq(a, b) == IF Id(a.path) # Id(b.path) THEN FALSE ELSE a.message = b.message

\* ValidationError.__lt__
ErrLtByMessage(a, b) == a.message \in {"m"} /\ b.message \notin {"m"}
ErrLt(a, b) == StrLt(Id(a.path), Id(b.path))

(***************************************************************************)
(* The `errors` set of a ValidationResult.  A set entry keeps the hash the *)
(* element had when it was inserted; a lookup compares the stored hash     *)
(* with the hash of the probed object, then identity, then __eq__.         *)
(***************************************************************************)
SetHasIdentityOnly(heap, set, e) ==
    \E x \in set : x.hash = Hash(heap[e]) /\ x.obj = e
SetHas(heap, set, e) ==
    \E x \in set : x.hash = Hash(heap[e])
                   /\ (x.obj = e \/ ErrEq(heap[x.obj], heap[e]))

SetAdd(heap, set, e) ==
    IF SetHas(heap, set, e) THEN set
    ELSE set \cup {[obj |-> e, hash |-> Hash(heap[e])]}

\* sorted(): stable insertion by __lt__
RECURSIVE InsertSorted(_, _, _)
InsertSorted(heap, sorted, x) ==
    IF sorted = <<>> THEN <<x>>
    ELSE IF ErrLt(heap[x], heap[Head(sorted)]) THEN <<x>> \o sorted
    ELSE <<Head(sorted)>> \o InsertSorted(heap, Tail(sorted), x)

RECURSIVE PySorted(_, _, _)
PySorted(heap, acc, rest) ==
    IF rest = <<>> THEN acc
    ELSE PySorted(heap, InsertSorted(heap, acc, Head(rest)), Tail(rest))

\* the orders in which a set may hand out its entries
RECURSIVE Orders(_)
Orders(set) ==
    IF set = {} THEN {<<>>}
    ELSE UNION {{<<x.obj>> \o o : o \in Orders(set \ {x})} : x \in set}

\* ValidationResult.__iter__: iter(sorted(self.errors))
IterOrders(heap, set) == {PySorted(heap, <<>>, o) : o \in Orders(set)}

\* ValidationResult.__len__
ResultLen(set) == Cardinality(set)

\* body of the loop of ValidationResult.merge, over the sorted snapshot
RECURSIVE MergeLoop(_, _, _, _)
MergeLoop(heap, set, order, path) ==
    IF order = <<>> THEN [heap |-> heap, set |-> set]
    ELSE LET copy == Rebase(heap[Head(order)], path)
             ref == Len(heap) + 1
             heap1 == Append(heap, copy)
         IN IF SetHas(heap1, set, ref)
            THEN MergeLoop(heap, set, Tail(order), path)
            ELSE MergeLoop(heap1, SetAdd(heap1, set, ref), Tail(order), path)

NoMerge == [dst |-> "-", src |-> "-", p |-> <<>>, n |-> 0]
NoIter == [src |-> "-", ids |-> <<>>]

(***************************************************************************)
(* Operations on errors and results                                        *)
(***************************************************************************)
\* ValidationResult.fail
Fail(r, msg) ==
    /\ steps < MaxSteps
    /\ Len(errs) < MaxErrs
    /\ LET heap1 == Append(errs, NewError(msg))
       IN /\ errs' = heap1
          /\ results' = [results EXCEPT ![r] = SetAdd(heap1, @, Len(heap1))]
    /\ mlog' = NoMerge
    /\ steps' = steps + 1
    /\ iter' = NoIter

\* ValidationResult.add / __iadd__ with an error the caller holds
Add(r, e) ==
    /\ steps < MaxSteps
    /\ e \in 1..Len(errs)
    /\ results' = [results EXCEPT ![r] = SetAdd(errs, @, e)]
    /\ mlog' = NoMerge
    /\ steps' = steps + 1
    /\ iter' = NoIter
    /\ UNCHANGED <<errs>>

\* ValidationError.rebase on an error the caller holds
RebaseErr(e, path) ==
    /\ steps < MaxSteps
    /\ e \in 1..Len(errs)
    /\ path # <<>>
    /\ Len(errs[e].path) + Len(path) <= MaxPath
    /\ errs' = [errs EXCEPT ![e] = Rebase(@, path)]
    /\ mlog' = NoMerge
    /\ steps' = steps + 1
    /\ iter' = NoIter
    /\ UNCHANGED <<results>>

\* ValidationResult.merge(result, path=path)
Merge(dst, src, path) ==
    /\ steps < MaxSteps
    /\ \A x \in results[src] : Len(errs[x.obj].path) + Len(path) <= MaxPath
    /\ \E order \in IterOrders(errs, results[src]) :
          LET out == MergeLoop(errs, results[dst], order, path)
          IN /\ Len(out.heap) <= MaxErrs
             /\ errs' = out.heap
             /\ results' = [results EXCEPT ![dst] = out.set]
    /\ mlog' = [dst |-> dst, src |-> src, p |-> path,
                n |-> IF mlog.n >= 1 /\ mlog.dst = dst /\ mlog.src = src /\ mlog.p = path
                      THEN 2
                      ELSE IF results[dst] = {} THEN 1 ELSE 0]
    /\ steps' = steps + 1
    /\ iter' = NoIter

\* for e in result: the identities in the order they are yielded
Iterate(r) ==
    /\ steps < MaxSteps
    /\ \E order \in IterOrders(errs, results[r]) :
          iter' = [src |-> r, ids |-> [i \in 1..Len(order) |-> Id(errs[order[i]].path)]]
    /\ mlog' = NoMerge
    /\ steps' = steps + 1
    /\ UNCHANGED <<errs, results>>

IdxIdle ==
    /\ fs = <<>> /\ module_info = <<>> /\ schemata = <<>> /\ infos = <<>>
    /\ schemas = <<>> /\ ret = <<>> /\ hist = <<>> /\ calls = 0

InitErr ==
    /\ errs = <<>>
    /\ results = [r \in Results |-> {}]
    /\ iter = NoIter
    /\ mlog = NoMerge
    /\ steps = 0
    /\ IdxIdle

NextErr ==
    \/ \E r \in Results, msg \in Msgs : Fail(r, msg) /\ UNCHANGED idxVars
    \/ \E r \in Results, e \in 1..MaxErrs : Add(r, e) /\ UNCHANGED idxVars
    \/ \E e \in 1..MaxErrs, p \in Prefixes : RebaseErr(e, p) /\ UNCHANGED idxVars
    \/ \E dst \in Results, src \in Results, p \in Prefixes :
          Merge(dst, src, p) /\ UNCHANGED idxVars
    \/ \E r \in Results : Iterate(r) /\ UNCHANGED idxVars

SpecErr == InitErr /\ [][NextErr]_vars

(***************************************************************************)
(* JSON values as Python holds them.  A dict is a function from keys to    *)
(* values; None is JSON null.                                              *)
(***************************************************************************)
JNull == [t |-> "null", v |-> 0]
JBool(b) == [t |-> "bool", v |-> b]
JInt(n) == [t |-> "int", v |-> n]
JStr(s) == [t |-> "str", v |-> s]
JArr(a) == [t |-> "arr", v |-> a]
JObj(d) == [t |-> "obj", v |-> d]

EmptyDict == [k \in {} |-> JNull]

\* bool(x) of a JSON value
Truthy(j) ==
    CASE j.t = "null" -> FALSE
      [] j.t = "bool" -> j.v
      [] j.t = "int" -> j.v # 0
      [] j.t = "str" -> j.v # ""
      [] j.t = "arr" -> Len(j.v) > 0
      [] j.t = "obj" -> DOMAIN j.v # {}

\* {**a, **b} and a.update(b)
DictMerge(a, b) ==
    [k \in DOMAIN a \cup DOMAIN b |-> IF k \in DOMAIN b THEN b[k] ELSE a[k]]

\* del d[k] for a key that is present
DictDel(d, k) == [x \in DOMAIN d \ {k} |-> d[x]]

\* d[k] = v
DictSet(d, k, val) == [x \in DOMAIN d \cup {k} |-> IF x = k THEN val ELSE d[x]]

(***************************************************************************)
(* ModuleInfo                                                              *)
(***************************************************************************)
ModuleClasses == {"Assembler", "Input", "Source", "Stage"}

\* ModuleInfo.module_class_to_directory: mapping.get(klass)
module_class_to_directory(klass) ==
    CASE klass = "Assembler" -> "assemblers"
      [] klass = "Input" -> "inputs"
      [] klass = "Source" -> "sources"
      [] klass = "Stage" -> "stages"
      [] OTHER -> "None"

\* The text of a SCHEMA constant: the members of a JSON object without the
\* enclosing braces.  wf is FALSE for text that is not such a member list.
FragText(wf, members) == [wf |-> wf, members |-> members]
EmptyText == FragText(TRUE, <<>>)

\* json.loads("{" + opts + "}"): later members replace earlier ones
RECURSIVE MembersToDict(_)
MembersToDict(members) ==
    IF members = <<>> THEN EmptyDict
    ELSE DictSet(MembersToDict(SubSeq(members, 1, Len(members) - 1)),
                 members[Len(members)].k, members[Len(members)].v)

JsonLoadsObject(text) ==
    IF text.wf THEN [exc |-> "none", val |-> MembersToDict(text.members)]
    ELSE [exc |-> "JSONDecodeError", val |-> EmptyDict]

\* ModuleInfo.__init__
ModuleInfoInit(klass, name, path, info) ==
    LET opts == IF info.schema.kind = "none" THEN EmptyText ELSE info.schema.text
        Made(parsed) ==
            [exc |-> parsed.exc,
             val |-> [name |-> name, type |-> klass, path |-> path,
                      info |-> info.info, desc |-> info.desc, opts |-> parsed.val]]
    IN Made(JsonLoadsObject(opts))

\* del schema["properties"]["options"]["definitions"]
DelNestedDefinitions(schema) ==
    IF "properties" \notin DOMAIN schema THEN [exc |-> "KeyError", val |-> schema]
    ELSE IF schema.properties.t # "obj" THEN [exc |-> "TypeError", val |-> schema]
    ELSE IF "options" \notin DOMAIN schema.properties.v
         THEN [exc |-> "KeyError", val |-> schema]
    ELSE IF schema.properties.v.options.t # "obj"
         THEN [exc |-> "TypeError", val |-> schema]
    ELSE IF "definitions" \notin DOMAIN schema.properties.v.options.v
         THEN [exc |-> "KeyError", val |-> schema]
    ELSE [exc |-> "none",
          val |-> DictSet(schema, "properties",
                     JObj(DictSet(schema.properties.v, "options",
                        JObj(DictDel(schema.properties.v.options.v, "definitions")))))]

\* "required": ["name"]
RequiredOfStage == JArr(<<JStr("name")>>)

\* {"type": "object", **self.opts}
OptionsSchemaTypeWins(opts) == DictMerge(opts, [type |-> JStr("object")])
OptionsSchema(opts) == DictMerge([type |-> JStr("object")], opts)

\* ModuleInfo.get_schema.  opts is self.opts after the call: the Input /
\* Source branch shares the nested values of self.opts with the schema.
ModuleGetSchema(mi) ==
    LET base == [title |-> JStr("Pipeline " \o mi.type),
                 type |-> JStr("object"),
                 additionalProperties |-> JBool(FALSE)]
        wrapped == mi.type \in {"Stage", "Assembler"}
        schema1 ==
            IF wrapped
            THEN DictMerge(base,
                    [properties |->
                        JObj([name |-> JObj([enum |-> JArr(<<JStr(mi.name)>>)]),
                              options |-> JObj(OptionsSchema(mi.opts))]),
                     required |-> RequiredOfStage])
            ELSE DictMerge(base, mi.opts)
        hoist == "definitions" \in DOMAIN mi.opts /\ Truthy(mi.opts.definitions)
        Hoisted(deleted) ==
            [exc |-> deleted.exc,
             val |-> deleted.val,
             opts |-> IF wrapped \/ deleted.exc # "none" THEN mi.opts
                      ELSE DictSet(mi.opts, "properties", deleted.val.properties)]
        Rest(schema) ==
            IF ~hoist THEN [exc |-> "none", val |-> schema, opts |-> mi.opts]
            ELSE Hoisted(DelNestedDefinitions(
                    DictSet(schema, "definitions", mi.opts.definitions)))
    IN Rest(schema1)

(***************************************************************************)
(* jsonschema, as far as Schema uses it: Draft4Validator.check_schema and  *)
(* Draft4Validator.iter_errors for the keywords type, enum, required,      *)
(* properties and additionalProperties.  An error is a message and the     *)
(* absolute path of the offending element.                                 *)
(***************************************************************************)
\* the characters of the keys that occur in paths
Codes(k) ==
    CASE k = "type" -> <<116, 121, 112, 101>>
      [] k = "title" -> <<116, 105, 116, 108, 101>>
      [] k = "additionalProperties" -> <<97, 100, 100, 105, 116, 105, 111, 110, 97, 108, 80, 114, 111, 112, 101, 114, 116, 105, 101, 115>>
      [] k = "properties" -> <<112, 114, 111, 112, 101, 114, 116, 105, 101, 115>>
      [] k = "definitions" -> <<100, 101, 102, 105, 110, 105, 116, 105, 111, 110, 115>>
      [] k = "required" -> <<114, 101, 113, 117, 105, 114, 101, 100>>
      [] k = "enum" -> <<101, 110, 117, 109>>
      [] k = "name" -> <<110, 97, 109, 101>>
      [] k = "options" -> <<111, 112, 116, 105, 111, 110, 115>>
      [] k = "u" -> <<117>>
      [] k = "d" -> <<100>>

KeySeg(k) == StrSeg(Codes(k))

SimpleTypes == {"array", "boolean", "integer", "null", "number", "object", "string"}

Violation(msg, path) == [message |-> msg, path |-> path]

RECURSIVE MetaViolations(_, _)
MetaViolations(j, path) ==
    IF j.t # "obj" THEN {Violation("schema is not of type 'object'", path)}
    ELSE LET d == j.v
             At(k) == path \o <<KeySeg(k)>>
             Sub(k) == IF d[k].t # "obj"
                       THEN {Violation(k \o " is not of type 'object'", At(k))}
                       ELSE UNION {MetaViolations(d[k].v[n], At(k) \o <<KeySeg(n)>>)
                                      : n \in DOMAIN d[k].v}
         IN UNION {
              CASE k = "type" ->
                     IF d[k].t = "str" /\ d[k].v \in SimpleTypes THEN {}
                     ELSE {Violation("type is not valid", At(k))}
                [] k = "title" ->
                     IF d[k].t = "str" THEN {}
                     ELSE {Violation("title is not of type 'string'", At(k))}
                [] k = "additionalProperties" ->
                     IF d[k].t = "bool" THEN {} ELSE MetaViolations(d[k], At(k))
                [] k = "properties" -> Sub(k)
                [] k = "definitions" -> Sub(k)
                [] k = "required" ->
                     IF d[k].t = "arr" /\ Len(d[k].v) >= 1
                        /\ \A i \in 1..Len(d[k].v) : d[k].v[i].t = "str"
                     THEN {} ELSE {Violation("required is not valid", At(k))}
                [] k = "enum" ->
                     IF d[k].t = "arr" /\ Len(d[k].v) >= 1 THEN {}
                     ELSE {Violation("enum is not valid", At(k))}
                [] OTHER -> {}
              : k \in DOMAIN d}

TypeMatches(inst, type) ==
    CASE type = "object" -> inst.t = "obj"
      [] type = "string" -> inst.t = "str"
      [] type = "array" -> inst.t = "arr"
      [] type = "boolean" -> inst.t = "bool"
      [] type = "null" -> inst.t = "null"
      [] OTHER -> inst.t = "int"

RECURSIVE IterErrors(_, _, _)
IterErrors(schema, inst, path) ==
    LET d == schema.v
        Has(k) == k \in DOMAIN d
        props == IF Has("properties") THEN d.properties.v ELSE EmptyDict
    IN  (IF Has("type") /\ ~TypeMatches(inst, d.type.v)
         THEN {Violation("is not of type " \o d.type.v, path)} ELSE {})
        \cup
        (IF Has("enum") /\ inst \notin Range(d.enum.v)
         THEN {Violation("is not one of enum", path)} ELSE {})
        \cup
        (IF Has("required") /\ inst.t = "obj"
         THEN {Violation(d.required.v[i].v \o " is a required property", path)
                  : i \in {n \in 1..Len(d.required.v) : d.required.v[n].v \notin DOMAIN inst.v}}
         ELSE {})
        \cup
        (IF inst.t = "obj"
         THEN UNION {IterErrors(props[k], inst.v[k], path \o <<KeySeg(k)>>)
                        : k \in DOMAIN props \cap DOMAIN inst.v}
         ELSE {})
        \cup
        (IF Has("additionalProperties") /\ d.additionalProperties = JBool(FALSE)
            /\ inst.t = "obj" /\ DOMAIN inst.v \ DOMAIN props # {}
         THEN {Violation("Additional properties are not allowed", path)} ELSE {})

(***************************************************************************)
(* Schema.  A ValidationResult built inside check / validate is new and    *)
(* its errors are not touched between insertions: its `errors` set is the  *)
(* set of the errors added, less those equal to one already there.         *)
(***************************************************************************)
MISSING == "missing schema information"

NoValidator == [t |-> "null", v |-> JNull]
Draft4Validator(data) == [t |-> "validator", v |-> data]

\* Schema.__init__
NewSchema(data, name) == [data |-> data, name |-> name, validator |-> NoValidator]

\* res += err  /  res.fail(msg)  on such a result
ResAdd(res, e) == IF \E x \in res : ErrEq(x, e) THEN res ELSE res \cup {e}

RECURSIVE ResAddAll(_, _)
ResAddAll(res, es) ==
    IF es = {} THEN res
    ELSE LET e == CHOOSE x \in es : \A y \in es : ~ErrLt(y, x)
         IN ResAddAll(ResAdd(res, e), es \ {e})

\* Schema.check: the outcomes; check_schema raises one of the violations
SchemaCheckNoAbsentTest(s) ==
    IF s.validator # NoValidator THEN {[s |-> s, res |-> {}]}
    ELSE IF MetaViolations(s.data, <<>>) = {}
         THEN {[s |-> [s EXCEPT !.validator = Draft4Validator(s.data)], res |-> {}]}
         ELSE {[s |-> s, res |-> ResAdd({}, e)] : e \in MetaViolations(s.data, <<>>)}

SchemaCheckEager(s) ==
    IF s.validator # NoValidator THEN {[s |-> s, res |-> {}]}
    ELSE IF ~Truthy(s.data) THEN {[s |-> s, res |-> ResAdd({}, NewError(MISSING))]}
    ELSE IF MetaViolations(s.data, <<>>) = {}
         THEN {[s |-> [s EXCEPT !.validator = Draft4Validator(s.data)], res |-> {}]}
         ELSE {[s |-> [s EXCEPT !.validator = Draft4Validator(s.data)],
                res |-> ResAdd({}, e)] : e \in MetaViolations(s.data, <<>>)}

SchemaCheck(s) ==
    IF s.validator # NoValidator THEN {[s |-> s, res |-> {}]}
    ELSE IF ~Truthy(s.data) THEN {[s |-> s, res |-> ResAdd({}, NewError(MISSING))]}
    ELSE IF MetaViolations(s.data, <<>>) = {}
         THEN {[s |-> [s EXCEPT !.validator = Draft4Validator(s.data)], res |-> {}]}
         ELSE {[s |-> s, res |-> ResAdd({}, e)] : e \in MetaViolations(s.data, <<>>)}

\* Schema.validate
SchemaValidate(s, target) ==
    {IF c.res # {}
     THEN [s |-> c.s, res |-> c.res, chk |-> c.res, ran |-> FALSE]
     ELSE [s |-> c.s,
           res |-> ResAddAll(c.res, IterErrors(c.s.validator.v, target, <<>>)),
           chk |-> c.res, ran |-> TRUE]
       : c \in SchemaCheck(s)}

\* Schema.__bool__
SchemaBool(s) == {[s |-> c.s, val |-> (c.res = {})] : c \in SchemaCheck(s)}

(***************************************************************************)
(* The files under the root                                                *)
(***************************************************************************)
Names == {"x"}
PyNoneName == "<None>"

ModPaths == {<<module_class_to_directory(k), n>> : k \in ModuleClasses, n \in Names}

\* a module definition file, as ast.parse and ModuleInfo.load see it
ModFile(syntax, hasdoc, schema, text) ==
    [syntax |-> syntax, hasdoc |-> hasdoc,
     doc |-> IF hasdoc THEN <<"Do X", "", "Longer text">> ELSE <<>>,
     schema |-> schema, text |-> text]

Member(k, val) == [k |-> k, v |-> val]

FragObject ==
    FragText(TRUE, <<Member("type", JStr("string")), Member("type", JStr("object")),
                     Member("additionalProperties", JBool(FALSE))>>)
FragDefinitions ==
    FragText(TRUE, <<Member("definitions", JObj([d |-> JObj([type |-> JStr("string")])]))>>)
FragEmptyDefinitions == FragText(TRUE, <<Member("definitions", JObj(EmptyDict))>>)
FragBadType == FragText(TRUE, <<Member("type", JStr("bogus"))>>)
FragString == FragText(TRUE, <<Member("type", JStr("string"))>>)
FragNotJson == FragText(FALSE, <<>>)

ModFiles ==
    {ModFile(FALSE, FALSE, "none", EmptyText),
     ModFile(TRUE, FALSE, "none", EmptyText),
     ModFile(TRUE, TRUE, "none", EmptyText),
     ModFile(TRUE, TRUE, "other", EmptyText)}
    \cup {ModFile(TRUE, TRUE, "str", t) :
            t \in {FragObject, FragDefinitions, FragEmptyDefinitions,
                   FragBadType, FragString, FragNotJson}}

\* schemas/osbuild1.json: wf is FALSE for text that is not JSON
JsonFile(wf, val) == [wf |-> wf, val |-> val]

ManifestFiles ==
    {JsonFile(FALSE, JNull), JsonFile(TRUE, JNull), JsonFile(TRUE, JObj(EmptyDict)),
     JsonFile(TRUE, JStr("x")),
     JsonFile(TRUE, JObj([type |-> JStr("bogus")])),
     JsonFile(TRUE, JObj([type |-> JStr("object"), required |-> JArr(<<JStr("name")>>),
                          additionalProperties |-> JBool(FALSE),
                          properties |-> JObj([name |-> JObj([type |-> JStr("string")])])]))}

NoModFile == [exists |-> FALSE, c |-> ModFile(FALSE, FALSE, "none", EmptyText)]
NoJsonFile == [exists |-> FALSE, c |-> JsonFile(FALSE, JNull)]
EmptyRoot == [mods |-> [p \in ModPaths |-> NoModFile], manifest |-> NoJsonFile]

\* documents handed to Schema.validate
Targets ==
    {JObj([name |-> JStr("x")]),
     JObj([name |-> JStr("x"), options |-> JObj([u |-> JInt(1)])]),
     JObj([name |-> JStr("y"), options |-> JStr("s")]),
     JStr("s")}

RECURSIVE JoinLines(_)
JoinLines(lines) ==
    IF lines = <<>> THEN ""
    ELSE IF Len(lines) = 1 THEN lines[1]
    ELSE lines[1] \o "\n" \o JoinLines(Tail(lines))

\* ModuleInfo.load; found is FALSE when it returns None
ModuleLoad(root, klass, name) ==
    LET base == module_class_to_directory(klass)
        path == <<base, name>>
        none == [name |-> name, type |-> klass, path |-> path,
                 info |-> "", desc |-> "", opts |-> EmptyDict]
        Out(exc, probed, found, val) ==
            [exc |-> exc, probed |-> probed, found |-> found, val |-> val]
    IN IF base = "None" THEN Out("ValueError", FALSE, FALSE, none)
       ELSE IF ~root.mods[path].exists THEN Out("none", TRUE, FALSE, none)
       ELSE LET Made(made) == Out(made.exc, TRUE, made.exc = "none", made.val)
                Parse(c) ==
                    IF ~c.syntax THEN Out("SyntaxError", TRUE, FALSE, none)
                    ELSE IF ~c.hasdoc THEN Out("AttributeError", TRUE, FALSE, none)
                    ELSE Made(ModuleInfoInit(klass, name, path,
                            [schema |-> [kind |-> IF c.schema = "none" THEN "none" ELSE "str",
                                         text |-> IF c.schema = "str" THEN c.text
                                                  ELSE EmptyText],
                             desc |-> Head(c.doc),
                             info |-> JoinLines(Tail(c.doc))]))
            IN Parse(root.mods[path].c)

(***************************************************************************)
(* Index.  References into the heaps `infos` and `schemas` are positive;   *)
(* None is 0.                                                              *)
(***************************************************************************)
PyNone == 0
MapSet(f, k, val) == [x \in DOMAIN f \cup {k} |-> IF x = k THEN val ELSE f[x]]
EmptyMap == [k \in {} |-> 0]

\* self._module_info[(klass, name)] = info, for the outcome of ModuleInfo.load
CacheLoaded(cache, heap, key, loaded) ==
    LET ref == IF loaded.found THEN Len(heap) + 1 ELSE PyNone
    IN IF loaded.exc # "none"
       THEN [exc |-> loaded.exc, ref |-> PyNone, probed |-> loaded.probed,
             cache |-> cache, heap |-> heap]
       ELSE [exc |-> "none", ref |-> ref, probed |-> loaded.probed,
             cache |-> MapSet(cache, key, ref),
             heap |-> IF loaded.found THEN Append(heap, loaded.val) ELSE heap]

\* Index.get_module_info on the index state (module_info, infos)
IndexGetModuleInfoNoNoneCache(root, cache, heap, klass, name) ==
    LET key == <<klass, name>>
        hit == key \in DOMAIN cache /\ cache[key] # PyNone
    IN IF hit
       THEN [exc |-> "none", ref |-> cache[key], probed |-> FALSE,
             cache |-> cache, heap |-> heap]
       ELSE CacheLoaded(cache, heap, key, ModuleLoad(root, klass, name))

IndexGetModuleInfo(root, cache, heap, klass, name) ==
    LET key == <<klass, name>>
    IN IF key \in DOMAIN cache
       THEN [exc |-> "none", ref |-> cache[key], probed |-> FALSE,
             cache |-> cache, heap |-> heap]
       ELSE CacheLoaded(cache, heap, key, ModuleLoad(root, klass, name))

\* the part of Index.get_schema that finds the schema data; probed tells
\* whether it tried to open a file
IndexFindSchema(root, cache, heap, klass, name) ==
    LET Out(exc, data, c, h, probed) ==
            [exc |-> exc, data |-> data, cache |-> c, heap |-> h, probed |-> probed]
    IN IF klass = "Manifest"
       THEN IF ~root.manifest.exists THEN Out("none", JNull, cache, heap, TRUE)
            ELSE IF ~root.manifest.c.wf
                 THEN Out("JSONDecodeError", JNull, cache, heap, TRUE)
            ELSE Out("none", root.manifest.c.val, cache, heap, TRUE)
       ELSE IF klass \in {"Assembler", "Input", "Source", "Stage"}
       THEN LET Synth(got, made) ==
                    Out(made.exc,
                        IF made.exc = "none" THEN JObj(made.val) ELSE JNull,
                        got.cache,
                        [got.heap EXCEPT ![got.ref].opts = made.opts],
                        got.probed)
                With(got) ==
                    IF got.exc # "none"
                    THEN Out(got.exc, JNull, got.cache, got.heap, got.probed)
                    ELSE IF got.ref = PyNone
                    THEN Out("none", JNull, got.cache, got.heap, got.probed)
                    ELSE Synth(got, ModuleGetSchema(got.heap[got.ref]))
            IN With(IndexGetModuleInfo(root, cache, heap, klass, name))
       ELSE Out("ValueError", JNull, cache, heap, FALSE)

NoFound == [exc |-> "none", data |-> JNull, cache |-> EmptyMap, heap |-> <<>>,
            probed |-> FALSE]

NoRet ==
    [op |-> "-", klass |-> "-", name |-> "-", exc |-> "none", ref |-> PyNone,
     first |-> FALSE, probed |-> FALSE, again |-> FALSE,
     res |-> {}, chk |-> {}, ran |-> FALSE, truth |-> FALSE]

Budget == calls < MaxCalls

\* Index.get_module_info
GetModuleInfo(klass, name) ==
    /\ Budget
    /\ \E got \in {IndexGetModuleInfo(fs, module_info, infos, klass, name)} :
       LET key == <<klass, name>>
       IN /\ module_info' = got.cache
          /\ infos' = got.heap
          /\ ret' = [NoRet EXCEPT !.op = "get_module_info", !.klass = klass,
                       !.name = name, !.exc = got.exc, !.ref = got.ref,
                       !.first = (key \notin DOMAIN hist.info),
                       !.probed = got.probed]
          /\ hist' = IF got.exc = "none" /\ key \notin DOMAIN hist.info
                     THEN [hist EXCEPT !.info = MapSet(@, key, got.ref)]
                     ELSE hist
    /\ calls' = calls + 1
    /\ UNCHANGED <<fs, schemata, schemas>>

\* Index.get_schema
GetSchema(klass, name) ==
    /\ Budget
    /\ \E found \in {IF <<klass, name>> \in DOMAIN schemata THEN NoFound
                     ELSE IndexFindSchema(fs, module_info, infos, klass, name)} :
       LET key == <<klass, name>>
           label == IF name = PyNoneName \/ name = "" THEN klass ELSE name
           new == Len(schemas) + 1
           Observe(exc, ref, probed) ==
               /\ ret' = [NoRet EXCEPT !.op = "get_schema", !.klass = klass,
                            !.name = name, !.exc = exc, !.ref = ref,
                            !.first = (key \notin DOMAIN hist.schema),
                            !.probed = probed]
               /\ hist' = IF exc = "none" /\ key \notin DOMAIN hist.schema
                          THEN [hist EXCEPT !.schema = MapSet(@, key, ref)]
                          ELSE hist
       IN IF key \in DOMAIN schemata
          THEN /\ Observe("none", schemata[key], FALSE)
               /\ UNCHANGED <<module_info, infos, schemata, schemas>>
          ELSE /\ module_info' = found.cache
               /\ infos' = found.heap
               /\ IF found.exc # "none"
                  THEN /\ Observe(found.exc, PyNone, found.probed)
                       /\ UNCHANGED <<schemata, schemas>>
                  ELSE /\ schemas' = Append(schemas, NewSchema(found.data, label))
                       /\ schemata' = MapSet(schemata, key, new)
                       /\ Observe("none", new, found.probed)
    /\ calls' = calls + 1
    /\ UNCHANGED <<fs>>

SameSchemaAgain(op, ref) == ret.op = op /\ ret.ref = ref

\* Schema.check on a schema the caller got from the index
Check(ref) ==
    /\ Budget
    /\ ref \in 1..Len(schemas)
    /\ \E c \in SchemaCheck(schemas[ref]) :
          /\ schemas' = [schemas EXCEPT ![ref] = c.s]
          /\ ret' = [NoRet EXCEPT !.op = "check", !.ref = ref, !.res = c.res,
                       !.chk = c.res, !.again = SameSchemaAgain("check", ref)]
    /\ calls' = calls + 1
    /\ UNCHANGED <<fs, module_info, schemata, infos, hist>>

\* Schema.validate
Validate(ref, target) ==
    /\ Budget
    /\ ref \in 1..Len(schemas)
    /\ \E o \in SchemaValidate(schemas[ref], target) :
          /\ schemas' = [schemas EXCEPT ![ref] = o.s]
          /\ ret' = [NoRet EXCEPT !.op = "validate", !.ref = ref, !.res = o.res,
                       !.chk = o.chk, !.ran = o.ran,
                       !.again = SameSchemaAgain("validate", ref)]
    /\ calls' = calls + 1
    /\ UNCHANGED <<fs, module_info, schemata, infos, hist>>

\* bool(schema)
Bool(ref) ==
    /\ Budget
    /\ ref \in 1..Len(schemas)
    /\ \E o \in SchemaBool(schemas[ref]) :
          /\ schemas' = [schemas EXCEPT ![ref] = o.s]
          /\ ret' = [NoRet EXCEPT !.op = "bool", !.ref = ref, !.truth = o.val,
                       !.again = SameSchemaAgain("bool", ref)]
    /\ calls' = calls + 1
    /\ UNCHANGED <<fs, module_info, schemata, infos, hist>>

\* a module file appears or changes under the root
PutModFile(path, c) ==
    /\ Budget
    /\ fs' = [fs EXCEPT !.mods[path] = [exists |-> TRUE, c |-> c]]
    /\ fs' # fs
    /\ calls' = calls + 1
    /\ UNCHANGED <<module_info, schemata, infos, schemas, ret, hist>>

\* a module file disappears
RemoveModFile(path) ==
    /\ Budget
    /\ fs.mods[path].exists
    /\ fs' = [fs EXCEPT !.mods[path] = NoModFile]
    /\ calls' = calls + 1
    /\ UNCHANGED <<module_info, schemata, infos, schemas, ret, hist>>

\* schemas/osbuild1.json appears or changes, or disappears
PutManifestFile(c) ==
    /\ Budget
    /\ fs' = [fs EXCEPT !.manifest = [exists |-> TRUE, c |-> c]]
    /\ fs' # fs
    /\ calls' = calls + 1
    /\ UNCHANGED <<module_info, schemata, infos, schemas, ret, hist>>

RemoveManifestFile ==
    /\ Budget
    /\ fs.manifest.exists
    /\ fs' = [fs EXCEPT !.manifest = NoJsonFile]
    /\ calls' = calls + 1
    /\ UNCHANGED <<module_info, schemata, infos, schemas, ret, hist>>

ErrIdle ==
    /\ errs = <<>> /\ results = [r \in Results |-> {}]
    /\ iter = NoIter /\ mlog = NoMerge /\ steps = 0

\* Index.__init__
InitIndex ==
    /\ module_info = EmptyMap
    /\ schemata = EmptyMap
    /\ infos = <<>>
    /\ schemas = <<>>
    /\ ret = NoRet
    /\ hist = [info |-> EmptyMap, schema |-> EmptyMap]
    /\ calls = 0

SchemaKeys == {<<k, n>> : k \in ModuleClasses \cup {"Bogus"}, n \in Names}
                 \cup {<<"Manifest", PyNoneName>>}

ModuleKeys == {<<k, n>> : k \in ModuleClasses \cup {"Bogus"}, n \in Names}

(***************************************************************************)
(* A static root, as the Index assumes it: one file under the root, of any *)
(* content, and the calls of a session.                                    *)
(***************************************************************************)
StaticRoots ==
    {[EmptyRoot EXCEPT !.mods[p] = [exists |-> TRUE, c |-> c]] :
        p \in ModPaths, c \in ModFiles}
    \cup {[EmptyRoot EXCEPT !.manifest = [exists |-> TRUE, c |-> c]] : c \in ManifestFiles}
    \cup {EmptyRoot}

InitStatic == fs \in StaticRoots /\ InitIndex /\ ErrIdle
NextStatic ==
    \/ \E key \in ModuleKeys : GetModuleInfo(key[1], key[2]) /\ UNCHANGED errVars
    \/ \E key \in SchemaKeys : GetSchema(key[1], key[2]) /\ UNCHANGED errVars
    \/ \E ref \in 1..MaxCalls : Check(ref) /\ UNCHANGED errVars
    \/ \E ref \in 1..MaxCalls, t \in Targets : Validate(ref, t) /\ UNCHANGED errVars
    \/ \E ref \in 1..MaxCalls : Bool(ref) /\ UNCHANGED errVars
SpecStatic == InitStatic /\ [][NextStatic]_vars

(***************************************************************************)
(* A root whose files appear and disappear during the session.             *)
(***************************************************************************)
DynModFiles == {ModFile(TRUE, TRUE, "str", FragObject), ModFile(TRUE, TRUE, "str", FragNotJson)}
DynManifestFiles == {JsonFile(TRUE, JObj([type |-> JStr("object")]))}

InitDynamic == fs = EmptyRoot /\ InitIndex /\ ErrIdle
NextDynamic ==
    \/ \E key \in ModuleKeys : GetModuleInfo(key[1], key[2]) /\ UNCHANGED errVars
    \/ \E key \in SchemaKeys : GetSchema(key[1], key[2]) /\ UNCHANGED errVars
    \/ \E ref \in 1..MaxCalls : Check(ref) /\ UNCHANGED errVars
    \/ \E ref \in 1..MaxCalls, t \in Targets : Validate(ref, t) /\ UNCHANGED errVars
    \/ \E ref \in 1..MaxCalls : Bool(ref) /\ UNCHANGED errVars
    \/ \E p \in ModPaths, c \in DynModFiles : PutModFile(p, c) /\ UNCHANGED errVars
    \/ \E p \in ModPaths : RemoveModFile(p) /\ UNCHANGED errVars
    \/ \E c \in DynManifestFiles : PutManifestFile(c) /\ UNCHANGED errVars
    \/ RemoveManifestFile /\ UNCHANGED errVars
SpecDynamic == InitDynamic /\ [][NextDynamic]_vars

(***************************************************************************)
(* Properties of the validation-result algebra, checked under SpecErr      *)
(***************************************************************************)
ErrorsOf(heap, set) == {heap[x.obj] : x \in set}

\* C5: no ValidationResult holds two errors that have the same identity and
\* the same message, whatever fail, add, merge and rebase operations ran.
C5_NoDuplicateErrors ==
    \A r \in Results : \A x, y \in results[r] :
        x # y => ~(Id(errs[x.obj].path) = Id(errs[y.obj].path)
                   /\ errs[x.obj].message = errs[y.obj].message)

\* C6: merging a result into a fresh result a second time with the same
\* path changes neither the set of errors nor their number, and every merged
\* error is a copy of an error of the source with the path prepended.
C6_MergedAreCopies ==
    (mlog.n >= 1 /\ mlog.src # mlog.dst) =>
        /\ ErrorsOf(errs, results[mlog.dst])
              \subseteq {Rebase(errs[x.obj], mlog.p) : x \in results[mlog.src]}
        /\ \A x \in results[mlog.src] : \E y \in results[mlog.dst] :
              ErrEq(errs[y.obj], Rebase(errs[x.obj], mlog.p))

C6_SecondMergeIsNoOp ==
    (mlog'.n = 2) =>
        /\ ErrorsOf(errs', results'[mlog'.dst]) = ErrorsOf(errs, results[mlog'.dst])
        /\ ResultLen(results'[mlog'.dst]) = ResultLen(results[mlog'.dst])

C6_MergeIdempotent == [](C6_MergedAreCopies) /\ [][C6_SecondMergeIsNoOp]_vars

C6_Witness ==
    /\ mlog.n = 2 /\ mlog.p # <<>> /\ mlog.src # mlog.dst
    /\ ResultLen(results[mlog.dst]) >= 2

\* C7: the identity of an error is "." if and only if its path is empty.
C7_RootIdIffEmptyPath ==
    \A e \in 1..Len(errs) : (Id(errs[e].path) = <<DOT>>) <=> (errs[e].path = <<>>)

\* C8: iterating a result yields its errors in non-decreasing identity
\* order, whatever the order in which they were inserted.
C8_IterationSorted ==
    \A i, j \in 1..Len(iter.ids) : i < j => ~StrLt(iter.ids[j], iter.ids[i])

C8_Witness ==
    /\ iter.src \in Results
    /\ Len(iter.ids) = ResultLen(results[iter.src])
    /\ Len(iter.ids) >= 2
    /\ iter.ids[1] # iter.ids[Len(iter.ids)]
    /\ \E x, y \in results[iter.src] :
          x.obj < y.obj /\ StrLt(Id(errs[y.obj].path), Id(errs[x.obj].path))

(***************************************************************************)
(* Properties of the Index, ModuleInfo and Schema                          *)
(***************************************************************************)
RetKey == <<ret.klass, ret.name>>

\* C1: two calls of get_module_info, or of get_schema, with the same key
\* that return normally return the same object, and a call after the first
\* normal return is served without a probe of the filesystem; in particular
\* an absent module stays absent although its file has appeared
\* (checked under SpecDynamic).
C1_SameCachedObject ==
    /\ (ret.op = "get_module_info" /\ ret.exc = "none") =>
          /\ ret.ref = hist.info[RetKey]
          /\ (~ret.first => ~ret.probed)
    /\ (ret.op = "get_schema" /\ ret.exc = "none") =>
          /\ ret.ref = hist.schema[RetKey]
          /\ (~ret.first => ~ret.probed)

C1_Witness ==
    /\ ret.op = "get_module_info" /\ ret.exc = "none" /\ ~ret.first
    /\ ret.ref = PyNone
    /\ fs.mods[<<module_class_to_directory(ret.klass), ret.name>>].exists

\* C2: validate on a Schema without data returns, for every target and on
\* every call, exactly one error, "missing schema information"; and
\* get_schema("Manifest") with the schema file missing returns such a falsy
\* schema (checked under SpecStatic).
C2_AbsentSchemaFails ==
    /\ (ret.op = "validate" /\ schemas[ret.ref].data = JNull) =>
          /\ Cardinality(ret.res) = 1
          /\ \A e \in ret.res : e.message = MISSING
    /\ (ret.op = "get_schema" /\ ret.klass = "Manifest" /\ ~fs.manifest.exists) =>
          /\ ret.exc = "none"
          /\ schemas[ret.ref].data = JNull
          /\ \A o \in SchemaBool(schemas[ret.ref]) : ~o.val

C2_Witness ==
    /\ ret.op = "validate" /\ ret.again
    /\ schemas[ret.ref].data = JNull
    /\ <<"Manifest", PyNoneName>> \in DOMAIN schemata
    /\ schemata[<<"Manifest", PyNoneName>>] = ret.ref
    /\ ~fs.manifest.exists

\* the keys of the cached schemas of stages and assemblers that have data
WrappedKeys ==
    {key \in DOMAIN schemata :
        key[1] \in {"Stage", "Assembler"} /\ schemas[schemata[key]].data # JNull}
DataOf(key) == schemas[schemata[key]].data.v
OptsOf(key) == infos[module_info[key]].opts
RequiredNames(d) == {d.required.v[i].v : i \in 1..Len(d.required.v)}

NameIsOwnName(key) ==
    DataOf(key).properties.v.name.v.enum = JArr(<<JStr(key[2])>>)

OptionsFromFragment(key) ==
    LET o == DataOf(key).properties.v.options.v
        opts == OptsOf(key)
        hoisted == IF "definitions" \in DOMAIN opts /\ Truthy(opts.definitions)
                   THEN {"definitions"} ELSE {}
    IN /\ DOMAIN o = (DOMAIN opts \cup {"type"}) \ hoisted
       /\ \A k \in DOMAIN o : o[k] = IF k \in DOMAIN opts THEN opts[k] ELSE JStr("object")

\* C3 as stated: the schema of a Stage or Assembler lists both name and
\* options as required, its name property accepts only the module's own
\* name, and its options property is built from the options fragment.
C3_RequiresNameAndOptions ==
    \A key \in WrappedKeys :
        /\ DataOf(key).type = JStr("object")
        /\ {"name", "options"} \subseteq RequiredNames(DataOf(key))
        /\ NameIsOwnName(key)
        /\ OptionsFromFragment(key)

\* C3 as amended: the schema of a Stage or Assembler is an object schema
\* that lists name, and only name, as required; its name property accepts
\* only the module's own name; its options property holds the keywords of
\* the options fragment (less a hoisted definitions), with type object
\* unless the fragment sets type itself (checked under SpecStatic).
C3_RequiresNameOnly ==
    \A key \in WrappedKeys :
        /\ DataOf(key).type = JStr("object")
        /\ RequiredNames(DataOf(key)) = {"name"}
        /\ NameIsOwnName(key)
        /\ OptionsFromFragment(key)

C3_Witness ==
    /\ ret.op = "get_schema" /\ ret.exc = "none" /\ RetKey \in WrappedKeys
    /\ "type" \in DOMAIN OptsOf(RetKey)
    /\ OptsOf(RetKey).type = JStr("string")

\* C4: for every module class, when the options fragment has a definitions
\* keyword, get_schema returns normally, with the definitions at the top
\* level of the schema and none left inside a nested options schema.
C4_DefinitionsHoisted ==
    (/\ ret.op = "get_schema" /\ ret.klass \in ModuleClasses
     /\ RetKey \in DOMAIN module_info
     /\ module_info[RetKey] # PyNone
     /\ "definitions" \in DOMAIN OptsOf(RetKey))
    => /\ ret.exc = "none"
       /\ "definitions" \in DOMAIN schemas[ret.ref].data.v
       /\ schemas[ret.ref].data.v.definitions = OptsOf(RetKey).definitions
       /\ "properties" \in DOMAIN schemas[ret.ref].data.v =>
             "definitions" \notin DOMAIN schemas[ret.ref].data.v.properties.v.options.v

\* C9: get_schema for Manifest or a module class never throws, whatever the
\* files under the root hold.
C9_UserDataNeverThrown ==
    (ret.op = "get_schema" /\ ret.klass \in ModuleClasses \cup {"Manifest"})
    => ret.exc = "none"

\* C10: a Schema holds a compiled validator only if its data passed the
\* meta-schema; when check reports the schema invalid, validate returns that
\* result as it is, runs no instance validation and leaves no validator
\* (checked under SpecStatic).
C10_ValidatorOnlyForValidSchema ==
    /\ \A i \in 1..Len(schemas) :
          schemas[i].validator # NoValidator =>
              /\ Truthy(schemas[i].data)
              /\ MetaViolations(schemas[i].data, <<>>) = {}
    /\ (ret.op \in {"validate", "check"} /\ ret.chk # {}) =>
          /\ ret.res = ret.chk
          /\ ~ret.ran
          /\ schemas[ret.ref].validator = NoValidator

C10_Witness ==
    /\ ret.op = "validate" /\ ret.chk # {} /\ ret.again
    /\ Truthy(schemas[ret.ref].data)
    /\ \E key \in DOMAIN schemata : schemata[key] = ret.ref /\ key[1] = "Stage"

====
